---- MODULE Spec2Model ----
(***************************************************************************)
(* Model of src/src/App.vue (life-in-weeks): the birth-date input, the     *)
(* computed birth date, the date arithmetic behind isWeekPassed and the    *)
(* 90 x 52 grid.                                                           *)
(*                                                                         *)
(* A JavaScript Date is a record holding the time value and the local      *)
(* calendar fields the getters return in the host's time zone.  Time       *)
(* values are counted in HOURS since 1970-01-01T00:00Z instead of          *)
(* milliseconds (every instant of the model is a whole hour, and a         *)
(* millisecond count does not fit a 32-bit integer); msPerWeek is scaled   *)
(* the same way, so floor(diff / msPerWeek) is unchanged.                  *)
(*                                                                         *)
(* Strings are sequences of one-character strings.                         *)
(***************************************************************************)
EXTENDS Integers, Sequences, FiniteSets, TLC

VARIABLES
    pc,           \* "setup" before the onMounted hook ran, "mounted" after
    search,       \* window.location.search: [has |-> dob present, dob |-> its value]
    tz,           \* the host's local time zone
    today,        \* ref today = new Date(), captured once
    birthInput,   \* ref birthInput
    hasDobParam,  \* ref hasDobParam
    birthDate     \* computed birthDate (the value Vue caches for birthInput)

vars == <<pc, search, tz, today, birthInput, hasDobParam, birthDate>>

----------------------------------------------------------------------------
(* Bounds of the model *)

\* observation years run from 1999 to 2000 + NowYearSpan
NowYearSpan == 2
\* anniversaries 1..MaxAnniversary of the birth date are examined
MaxAnniversary == 4

----------------------------------------------------------------------------
(* Program constants *)

TOTAL_YEARS == 90
WEEKS_PER_YEAR == 52

LIFE_EXPECTANCY ==
    [women |-> [years |-> 81, weeks |-> 15, totalWeeks |-> 81 * WEEKS_PER_YEAR + 15],
     men   |-> [years |-> 76, weeks |-> 10, totalWeeks |-> 76 * WEEKS_PER_YEAR + 10]]

\* null, as a value distinct from every Date and every string
Null == [isNull |-> TRUE]

----------------------------------------------------------------------------
(* Calendar arithmetic of the Date object (ECMAScript MakeDay / YearFromTime) *)

\* day number (days since 1970-01-01) of the proleptic Gregorian date y-m-d, m in 1..12
DaysFromCivil(y, m, d) ==
    LET yy  == IF m <= 2 THEN y - 1 ELSE y
        era == yy \div 400
        yoe == yy - era * 400
        mp  == (m + 9) % 12
        doy == (153 * mp + 2) \div 5 + d - 1
        doe == yoe * 365 + yoe \div 4 - yoe \div 100 + doy
    IN  era * 146097 + doe - 719468

\* the proleptic Gregorian date of a day number
CivilFromDays(n) ==
    LET z   == n + 719468
        era == z \div 146097
        doe == z - era * 146097
        yoe == (doe - doe \div 1460 + doe \div 36524 - doe \div 146096) \div 365
        doy == doe - (365 * yoe + yoe \div 4 - yoe \div 100)
        mp  == (5 * doy + 2) \div 153
        d   == doy - (153 * mp + 2) \div 5 + 1
        m   == IF mp < 10 THEN mp + 3 ELSE mp - 9
    IN  [year |-> yoe + era * 400 + (IF m <= 2 THEN 1 ELSE 0), month |-> m, day |-> d]

\* day number of the last Sunday of a 31-day month (1970-01-01 was a Thursday)
LastSunday(y, m) ==
    LET last == DaysFromCivil(y, m, 31)
    IN  last - ((last + 4) % 7)

\* The host time zones: "UTC" has no daylight saving time; "Europe/Berlin" is
\* UTC+1, and UTC+2 from 01:00Z on the last Sunday of March to 01:00Z on the
\* last Sunday of October (the rule in force since 1996; earlier years are
\* taken as standard time).
Zones == {"UTC", "Europe/Berlin"}

\* local time minus UTC, in hours, at the instant t
Offset(zone, t) ==
    IF zone = "UTC" THEN 0
    ELSE LET y == CivilFromDays(t \div 24).year
         IN  IF /\ y >= 1996
                /\ t >= LastSunday(y, 3) * 24 + 1
                /\ t <  LastSunday(y, 10) * 24 + 1
             THEN 2 ELSE 1

\* the instant of a local wall-clock time tl (ECMAScript UTC(t): a skipped
\* local time is read with the offset before the transition, a repeated one
\* as the earlier instant)
LocalToUTC(zone, tl) ==
    IF zone = "UTC" THEN tl
    ELSE IF Offset(zone, tl - 2) = 2 THEN tl - 2 ELSE tl - 1

\* the Date whose time value is t, with the fields its getters return
DateFromTime(zone, t) ==
    LET l == t + Offset(zone, t)
        c == CivilFromDays(l \div 24)
    IN  [time |-> t, year |-> c.year, month |-> c.month - 1, date |-> c.day,
         hours |-> l % 24]

\* new Date(year, monthIndex, day, hours) in the zone: a year of 0..99 means
\* 1900 + year, and out-of-range months and days carry over
NewDateIn(zone, year, monthIndex, day, hours) ==
    LET yr   == IF year >= 0 /\ year <= 99 THEN 1900 + year ELSE year
        ym   == yr + monthIndex \div 12
        mn   == monthIndex % 12
        days == DaysFromCivil(ym, mn + 1, 1) + day - 1
    IN  DateFromTime(zone, LocalToUTC(zone, days * 24 + hours))

\* new Date(year, monthIndex, day) on the host
NewDate(year, monthIndex, day) == NewDateIn(tz, year, monthIndex, day, 0)

getFullYear(d) == d.year
getMonth(d)    == d.month
getDate(d)     == d.date
getTime(d)     == d.time

----------------------------------------------------------------------------
(* Strings *)

DigitChars == <<"0", "1", "2", "3", "4", "5", "6", "7", "8", "9">>

IsDigit(c) == \E i \in 1..10 : DigitChars[i] = c

DigitVal(c) == (CHOOSE i \in 1..10 : DigitChars[i] = c) - 1

\* String.prototype.split('-')
RECURSIVE SplitAcc(_, _, _, _)
SplitAcc(s, i, cur, acc) ==
    IF i > Len(s) THEN Append(acc, cur)
    ELSE IF s[i] = "-" THEN SplitAcc(s, i + 1, <<>>, Append(acc, cur))
    ELSE SplitAcc(s, i + 1, Append(cur, s[i]), acc)

Split(s) == SplitAcc(s, 1, <<>>, <<>>)

RECURSIVE DecimalValue(_, _)
DecimalValue(s, n) ==
    IF n = 0 THEN 0 ELSE DecimalValue(s, n - 1) * 10 + DigitVal(s[n])

\* Number(s) for strings over digits, '-' and letters: "" is 0, a run of
\* digits is its decimal value, anything else is NaN
Number(s) ==
    IF s = <<>> THEN [nan |-> FALSE, val |-> 0]
    ELSE IF \A i \in 1..Len(s) : IsDigit(s[i])
         THEN [nan |-> FALSE, val |-> DecimalValue(s, Len(s))]
         ELSE [nan |-> TRUE, val |-> 0]

\* !n for a number n: NaN and 0 are falsy
Falsy(n) == n.nan \/ n.val = 0

----------------------------------------------------------------------------
(* The script of App.vue *)

\* computed birthDate, as a function of birthInput.value
birthDateOf(value) ==
    IF value = <<>> THEN Null
    ELSE LET parts == [i \in DOMAIN Split(value) |-> Number(Split(value)[i])]
         IN  IF Len(parts) # 3 THEN Null
             ELSE LET year == parts[1]
                      month == parts[2]
                      day == parts[3]
                  IN  IF Falsy(year) \/ Falsy(month) \/ Falsy(day) THEN Null
                      ELSE NewDate(year.val, month.val - 1, day.val)

startOfDay(d) == NewDate(getFullYear(d), getMonth(d), getDate(d))

Max(a, b) == IF a >= b THEN a ELSE b
Min(a, b) == IF a <= b THEN a ELSE b

\* variant: the birthday itself still counts as before the birthday
getAgeYears_Inclusive(birth, onDate) ==
    LET age == getFullYear(onDate) - getFullYear(birth)
        birthMonth == getMonth(birth)
        birthDay == getDate(birth)
        month == getMonth(onDate)
        day == getDate(onDate)
    IN  Max(0, IF month < birthMonth \/ (month = birthMonth /\ day <= birthDay)
               THEN age - 1 ELSE age)

getAgeYears(birth, onDate) ==
    LET age == getFullYear(onDate) - getFullYear(birth)
        birthMonth == getMonth(birth)
        birthDay == getDate(birth)
        month == getMonth(onDate)
        day == getDate(onDate)
    IN  Max(0, IF month < birthMonth \/ (month = birthMonth /\ day < birthDay)
               THEN age - 1 ELSE age)

\* variant: the birthday of onDate's calendar year, whether or not it was reached
lastBirthday_ThisYear(birth, onDate) ==
    NewDate(getFullYear(onDate), getMonth(birth), getDate(birth))

\* variant: the birthday that follows the completed years
lastBirthday_Upcoming(birth, onDate) ==
    LET age == getAgeYears(birth, onDate)
    IN  NewDate(getFullYear(birth) + age + 1, getMonth(birth), getDate(birth))

lastBirthday(birth, onDate) ==
    LET age == getAgeYears(birth, onDate)
    IN  NewDate(getFullYear(birth) + age, getMonth(birth), getDate(birth))

\* 1000 * 60 * 60 * 24 * 7 milliseconds, in hours
msPerWeek == 24 * 7

\* variant: weeks counted from the birth date instead of the last birthday
weeksSinceLastBirthday_SinceBirth(birth, onDate) ==
    LET start == startOfDay(birth)
        end == startOfDay(onDate)
        diff == getTime(end) - getTime(start)
    IN  IF diff <= 0 THEN 0 ELSE diff \div msPerWeek

weeksSinceLastBirthday(birth, onDate) ==
    LET start == startOfDay(lastBirthday(birth, onDate))
        end == startOfDay(onDate)
        diff == getTime(end) - getTime(start)
    IN  IF diff <= 0 THEN 0 ELSE diff \div msPerWeek

\* variant: the week in progress counts as passed
isWeekPassedFor_Inclusive(b, now, yearIndex, weekIndex) ==
    IF b = Null THEN FALSE
    ELSE LET ageYears == getAgeYears(b, now)
         IN  IF yearIndex < ageYears THEN TRUE
             ELSE IF yearIndex > ageYears THEN FALSE
             ELSE weekIndex <= Min(WEEKS_PER_YEAR, weeksSinceLastBirthday(b, now))

\* isWeekPassed for the values b of birthDate and now of today
isWeekPassedFor(b, now, yearIndex, weekIndex) ==
    IF b = Null THEN FALSE
    ELSE LET ageYears == getAgeYears(b, now)
         IN  IF yearIndex < ageYears THEN TRUE
             ELSE IF yearIndex > ageYears THEN FALSE
             ELSE weekIndex < Min(WEEKS_PER_YEAR, weeksSinceLastBirthday(b, now))

isWeekPassed(yearIndex, weekIndex) ==
    isWeekPassedFor(birthDate, today, yearIndex, weekIndex)

isValidDateInput(value) ==
    /\ Len(value) = 10
    /\ \A i \in {1, 2, 3, 4, 6, 7, 9, 10} : IsDigit(value[i])
    /\ value[5] = "-" /\ value[8] = "-"
    /\ LET p == Split(value)
           y == Number(p[1])
           m == Number(p[2])
           d == Number(p[3])
       IN  /\ ~(Falsy(y) \/ Falsy(m) \/ Falsy(d))
           /\ LET dt == NewDate(y.val, m.val - 1, d.val)
              IN  getFullYear(dt) = y.val /\ getMonth(dt) = m.val - 1
                      /\ getDate(dt) = d.val

----------------------------------------------------------------------------
(* The template of App.vue *)

\* v-if of the birthday picker
PickerVisible == ~hasDobParam

\* the loop variables of v-for="year in TOTAL_YEARS", v-for="week in WEEKS_PER_YEAR"
Years == 1..TOTAL_YEARS
Weeks == 1..WEEKS_PER_YEAR

\* the cell (year, week) has the class bg-rose-600
CellPassed(year, week) == isWeekPassed(year - 1, week - 1)

\* the cell (year, week) has the emerald (women) resp. blue (men) border
WomenOutline(year, week) ==
    week = LIFE_EXPECTANCY.women.weeks /\ year = LIFE_EXPECTANCY.women.years

MenOutline(year, week) ==
    week = LIFE_EXPECTANCY.men.weeks /\ year = LIFE_EXPECTANCY.men.years

----------------------------------------------------------------------------
(* Inputs *)

Digit(n) == DigitChars[n + 1]

\* the text YYYY-MM-DD of the numbers y, m, d, zero-padded
Fmt(y, m, d) ==
    << Digit((y \div 1000) % 10), Digit((y \div 100) % 10), Digit((y \div 10) % 10),
       Digit(y % 10), "-", Digit((m \div 10) % 10), Digit(m % 10), "-",
       Digit((d \div 10) % 10), Digit(d % 10) >>

\* calendar dates (year, month, day) a date control can hold
ValidTriples ==
    { <<2000, 1, 1>>, <<2000, 2, 29>>, <<2000, 3, 1>>, <<2001, 12, 31>>,
      <<50, 6, 15>> }

\* triples that are no calendar date
InvalidTriples ==
    { <<2021, 2, 30>>, <<2023, 13, 1>>, <<2023, 0, 10>>, <<0, 1, 1>> }

\* texts that are not of the shape YYYY-MM-DD
MalformedTexts ==
    { << "2", "0", "0", "0", "-", "1", "-", "8" >>,
      << "2", "0", "0", "0", "-", "0", "1" >>,
      << "a", "b", "c", "d", "-", "0", "1", "-", "0", "1" >> }

Texts ==
    {Fmt(t[1], t[2], t[3]) : t \in ValidTriples \cup InvalidTriples}
        \cup MalformedTexts \cup {<<>>}

\* values of the dob parameter
DobParams ==
    { Fmt(2000, 1, 1), Fmt(2000, 2, 29), Fmt(2023, 2, 30), Fmt(50, 6, 15),
      << "2", "0", "0", "0", "-", "1", "-", "8" >>, <<>> }

\* the days and times of day at which the page is opened
NowYears == 1999..(2000 + NowYearSpan)
NowMonthDays == { <<1, 1>>, <<1, 8>>, <<2, 28>>, <<3, 1>>, <<3, 29>>, <<12, 31>> }
NowHours == {15}

Nows(zone) ==
    { NewDateIn(zone, y, md[1] - 1, md[2], h) :
        y \in NowYears, md \in NowMonthDays, h \in NowHours }

----------------------------------------------------------------------------
(* The state machine *)

Init ==
    /\ pc = "setup"
    /\ search \in {[has |-> FALSE, dob |-> <<>>]}
                     \cup {[has |-> TRUE, dob |-> v] : v \in DobParams}
    /\ tz \in Zones
    /\ today \in Nows(tz)
    /\ birthInput = <<>>
    /\ hasDobParam = FALSE
    /\ birthDate = birthDateOf(<<>>)

\* variant: the dob parameter is taken without validation
OnMounted_Unvalidated ==
    /\ pc = "setup"
    /\ pc' = "mounted"
    /\ IF search.has /\ search.dob # <<>>
       THEN /\ birthInput' = search.dob
            /\ hasDobParam' = TRUE
            /\ birthDate' = birthDateOf(search.dob)
       ELSE UNCHANGED <<birthInput, hasDobParam, birthDate>>
    /\ UNCHANGED <<search, tz, today>>

\* the onMounted hook
OnMounted ==
    /\ pc = "setup"
    /\ pc' = "mounted"
    /\ IF search.has /\ search.dob # <<>> /\ isValidDateInput(search.dob)
       THEN /\ birthInput' = search.dob
            /\ hasDobParam' = TRUE
            /\ birthDate' = birthDateOf(search.dob)
       ELSE UNCHANGED <<birthInput, hasDobParam, birthDate>>
    /\ UNCHANGED <<search, tz, today>>

\* v-model="birthInput" on the picker, which exists only while v-if holds;
\* the value is whatever text the host's input element holds
PickerInput ==
    /\ pc = "mounted"
    /\ PickerVisible
    /\ \E v \in Texts :
        /\ birthInput' = v
        /\ birthDate' = birthDateOf(v)
    /\ UNCHANGED <<pc, search, tz, today, hasDobParam>>

Next == OnMounted \/ PickerInput

Spec == Init /\ [][Next]_vars

\* the cached computed value always belongs to the current input
TypeOK ==
    /\ pc \in {"setup", "mounted"}
    /\ hasDobParam \in BOOLEAN
    /\ birthDate = birthDateOf(birthInput)

----------------------------------------------------------------------------
(* Vocabulary of the properties *)

\* the 0-based grid coordinates
YearIndexes == 0..(TOTAL_YEARS - 1)
WeekIndexes == 0..(WEEKS_PER_YEAR - 1)

IsLeapYear(y) == (y % 4 = 0 /\ y % 100 # 0) \/ y % 400 = 0

DaysInMonth(y, m) ==
    IF m = 2 THEN (IF IsLeapYear(y) THEN 29 ELSE 28)
    ELSE IF m \in {4, 6, 9, 11} THEN 30 ELSE 31

\* the text is four digits, '-', two digits, '-', two digits
HasDateShape(s) ==
    /\ Len(s) = 10
    /\ \A i \in 1..10 : IF i \in {5, 8} THEN s[i] = "-" ELSE IsDigit(s[i])

TextYear(s)  == DecimalValue(SubSeq(s, 1, 4), 4)
TextMonth(s) == DecimalValue(SubSeq(s, 6, 7), 2)
TextDay(s)   == DecimalValue(SubSeq(s, 9, 10), 2)

\* the text names a calendar date: year from 0001, month 1..12, a day of that month
IsCalendarDateText(s) ==
    /\ HasDateShape(s)
    /\ TextYear(s) >= 1
    /\ TextMonth(s) \in 1..12
    /\ TextDay(s) \in 1..DaysInMonth(TextYear(s), TextMonth(s))

\* the day number of the local calendar day of a Date
CalendarDay(d) == DaysFromCivil(getFullYear(d), getMonth(d) + 1, getDate(d))

\* no cell of the grid is marked as passed
GridAllFalse == \A yi \in YearIndexes, wi \in WeekIndexes : ~isWeekPassed(yi, wi)

----------------------------------------------------------------------------
(* C1 *)

\* C1: for a birth date and the observation date today, isWeekPassed(yearIndex,
\* weekIndex) is true exactly when yearIndex < age, or yearIndex = age and
\* weekIndex < min(52, weeksSinceLastBirthday); false for every other coordinate.
C1_WeekPassedExact ==
    birthDate # Null =>
        LET age == getAgeYears(birthDate, today)
            weeksThisYear == Min(52, weeksSinceLastBirthday(birthDate, today))
        IN  \A yi \in YearIndexes, wi \in WeekIndexes :
                isWeekPassed(yi, wi) <=>
                    (yi < age \/ (yi = age /\ wi < weeksThisYear))

\* a grid with full rows behind and a partly elapsed current row
C1_Witness ==
    /\ pc = "mounted"
    /\ birthDate # Null
    /\ getAgeYears(birthDate, today) = 2
    /\ weeksSinceLastBirthday(birthDate, today) = 8
    /\ isWeekPassed(1, 51) /\ isWeekPassed(2, 7) /\ ~isWeekPassed(2, 8)

----------------------------------------------------------------------------
(* C2 *)

\* the observation dates that follow now directly among the dates of the model
NextNows(now) ==
    { n \in Nows(tz) :
        /\ getTime(now) < getTime(n)
        /\ ~\E k \in Nows(tz) : getTime(now) < getTime(k) /\ getTime(k) < getTime(n) }

\* C2: for the fixed birth date, every coordinate elapsed under the observation
\* date today is elapsed under the next later observation date (every date of
\* the model occurs as today, so the inclusion between any two dates
\* now1 < now2 follows along the chain of dates between them).
C2_Monotonic ==
    birthDate # Null =>
        \A now2 \in NextNows(today) :
            \A yi \in YearIndexes, wi \in WeekIndexes :
                isWeekPassedFor(birthDate, today, yi, wi)
                    => isWeekPassedFor(birthDate, now2, yi, wi)

\* a 29 February birthday seen on the last day of its first year of life, with
\* a later observation date beyond the next birthday
C2_Witness ==
    /\ pc = "mounted"
    /\ birthDate # Null
    /\ getMonth(birthDate) = 1 /\ getDate(birthDate) = 29
    /\ getAgeYears(birthDate, today) = 0
    /\ isWeekPassed(0, 51)
    /\ \E now2 \in NextNows(today) : getAgeYears(birthDate, now2) = 1

----------------------------------------------------------------------------
(* C3 *)

\* C3: whenever the birth-date input is absent or is not a valid YYYY-MM-DD
\* calendar date, the derived birth date is null and isWeekPassed is false for
\* all 4680 coordinates.
C3_InvalidInputIsNull ==
    (birthInput = <<>> \/ ~IsCalendarDateText(birthInput)) =>
        birthDate = Null /\ GridAllFalse

----------------------------------------------------------------------------
(* C4 *)

\* C4: a dob text of the form YYYY-MM-DD that names a valid calendar date is
\* accepted and the constructed date has exactly its year, month and day; every
\* other text is rejected.
C4_ValidationRoundTrips ==
    (pc = "mounted" /\ search.has) =>
        LET s == search.dob
        IN  IF IsCalendarDateText(s)
            THEN /\ isValidDateInput(s)
                 /\ hasDobParam
                 /\ getFullYear(birthDate) = TextYear(s)
                 /\ getMonth(birthDate) + 1 = TextMonth(s)
                 /\ getDate(birthDate) = TextDay(s)
            ELSE ~isValidDateInput(s) /\ ~hasDobParam

----------------------------------------------------------------------------
(* C5 *)

\* a dob parameter is present and passes isValidDateInput
DobUsable == search.has /\ search.dob # <<>> /\ isValidDateInput(search.dob)

C5_State ==
    pc = "mounted" =>
        /\ hasDobParam <=> DobUsable
        /\ PickerVisible <=> ~DobUsable
        /\ hasDobParam => birthInput = search.dob
        /\ birthInput = <<>> => birthDate = Null /\ GridAllFalse

C5_Step ==
    /\ hasDobParam => hasDobParam' /\ birthInput' = birthInput
    /\ (pc = "setup" /\ ~DobUsable) => birthInput' = <<>> /\ ~hasDobParam'
    /\ (pc = "mounted" /\ birthInput' # birthInput) => PickerVisible /\ PickerVisible'

----------------------------------------------------------------------------
(* C6 *)

\* C6: the age at the birth date is 0, and for every anniversary of the birth
\* date the age on the day before it is the age on the anniversary minus 1.
C6_AgeStepsAtAnniversary ==
    birthDate # Null =>
        /\ getAgeYears(birthDate, birthDate) = 0
        /\ \A k \in 1..MaxAnniversary :
             LET anniversary == NewDate(getFullYear(birthDate) + k,
                                        getMonth(birthDate), getDate(birthDate))
                 dayBefore == NewDate(getFullYear(birthDate) + k,
                                      getMonth(birthDate), getDate(birthDate) - 1)
             IN  /\ getAgeYears(birthDate, anniversary) = k
                 /\ getAgeYears(birthDate, dayBefore)
                        = getAgeYears(birthDate, anniversary) - 1

\* the page is opened on an anniversary of the birth date
C6_Witness ==
    /\ pc = "mounted"
    /\ birthDate # Null
    /\ getMonth(today) = getMonth(birthDate) /\ getDate(today) = getDate(birthDate)
    /\ getFullYear(today) > getFullYear(birthDate)
    /\ getAgeYears(birthDate, today) = getFullYear(today) - getFullYear(birthDate)

----------------------------------------------------------------------------
(* C7 *)

\* the 0-based coordinates of the outlined cells
OutlinedCells ==
    { <<year - 1, week - 1>> : year \in Years, week \in Weeks }
        \cap { c \in YearIndexes \X WeekIndexes :
                 WomenOutline(c[1] + 1, c[2] + 1) \/ MenOutline(c[1] + 1, c[2] + 1) }

\* C7: the grid outlines exactly the cells at the 0-based coordinates (81, 15)
\* (women) and (76, 10) (men), the coordinates passed to isWeekPassed.
C7_OutlinedCells ==
    pc = "mounted" =>
        /\ OutlinedCells = { <<81, 15>>, <<76, 10>> }
        /\ WomenOutline(81 + 1, 15 + 1)
        /\ MenOutline(76 + 1, 10 + 1)

----------------------------------------------------------------------------
(* C8 *)

\* today falls on the birthday (same month and day as the birth date)
OnBirthday == getMonth(today) = getMonth(birthDate) /\ getDate(today) = getDate(birthDate)

\* C8 as stated: for every birth date and every observation date, the last
\* birthday is on or before the observation date, and is that day on the
\* birthday itself.
C8_LastBirthdayNotAfter ==
    birthDate # Null =>
        /\ getTime(lastBirthday(birthDate, today)) <= getTime(today)
        /\ OnBirthday => lastBirthday(birthDate, today) = startOfDay(today)

\* C8, amended: for every birth date and every observation date that is not
\* earlier than the birth date, the last birthday is on or before the
\* observation date, and is that day on the birthday itself.
C8_LastBirthdayNotAfterFromBirth ==
    (birthDate # Null /\ getTime(birthDate) <= getTime(today)) =>
        /\ getTime(lastBirthday(birthDate, today)) <= getTime(today)
        /\ OnBirthday => lastBirthday(birthDate, today) = startOfDay(today)

\* the page is opened on a later birthday
C8_Witness ==
    /\ pc = "mounted"
    /\ birthDate # Null
    /\ getTime(birthDate) < getTime(today)
    /\ OnBirthday
    /\ getAgeYears(birthDate, today) >= 1
    /\ lastBirthday(birthDate, today) = startOfDay(today)

----------------------------------------------------------------------------
(* C9 *)

\* C9: weeksSinceLastBirthday is floor(d / 7) for the number d of calendar days
\* from the last birthday to today (0 when d <= 0); exactly 7 * k days after the
\* last birthday precisely the cells 0..k-1 of the current year-row are elapsed.
C9_WholeCalendarWeeks ==
    birthDate # Null =>
        LET d == CalendarDay(today) - CalendarDay(lastBirthday(birthDate, today))
            k == IF d <= 0 THEN 0 ELSE d \div 7
            age == getAgeYears(birthDate, today)
        IN  /\ weeksSinceLastBirthday(birthDate, today) = k
            /\ (d >= 0 /\ d % 7 = 0 /\ age \in YearIndexes) =>
                   \A wi \in WeekIndexes : isWeekPassed(age, wi) <=> wi < k

----------------------------------------------------------------------------
(* C10 *)

\* C10: weeksSinceLastBirthday is between 0 and 52 for every birth date and
\* observation date, so the clamp min(52, ...) leaves it unchanged, and no cell
\* is elapsed when the observation date precedes the birth date.
C10_WeeksInRange ==
    birthDate # Null =>
        LET w == weeksSinceLastBirthday(birthDate, today)
        IN  /\ w \in 0..52
            /\ Min(WEEKS_PER_YEAR, w) = w
            /\ getTime(today) < getTime(birthDate) => GridAllFalse

\* a whole year-row elapsed on the eve of a birthday: 52 weeks, the largest count
C10_Witness ==
    /\ pc = "mounted"
    /\ birthDate # Null
    /\ weeksSinceLastBirthday(birthDate, today) = 52
    /\ isWeekPassed(getAgeYears(birthDate, today), 51)

====
